---- MODULE Spec2Model ----
(***************************************************************************)
(* A model of the task manager: the tasks and profiles tables with their   *)
(* row-level-security policies and updated_at trigger (the SQL            *)
(* migrations), the dashboard's task query and mutations (Index.tsx) and   *)
(* the auth hook's state (use-auth-state.tsx).                            *)
(*                                                                         *)
(* Text values are sequences of one-character strings, so that trimming,   *)
(* lower-casing and LIKE matching are computed rather than assumed.        *)
(***************************************************************************)
EXTENDS Integers, Sequences, FiniteSets, TLC

VARIABLES
    tasks,        \* public.tasks: a set of rows
    profiles,     \* public.profiles: a set of rows
    now,          \* the store's clock, now()
    nextId,       \* the next id gen_random_uuid() hands out
    lastOp,       \* the last data-access call and its outcome
    session,      \* the supabase client's current session (auth.uid())
    user,         \* useAuthState's user
    loading,      \* useAuthState's loading
    route,        \* the router's location: "/" (Index), "/auth" (AuthPage) or
                  \* "/profile" (Profile)
    getSession,   \* useAuthState: the getSession() call of the mounted hook
    lastEvent,    \* the last event onAuthStateChange's callback was given
    events,       \* auth events the client has yet to give to its subscribers
    pagination,   \* PaginationControls: its props, its items, its last call
    statusFilter, \* Index state
    search,       \* Index state
    page,         \* Index state
    cache,        \* the query cache: one entry {key, hasData, data, count, error} per query key
    fetching,     \* the list queries in flight: {key, as}
    fetches,      \* history: the number of fetches the query client has started
    storage,      \* the "avatars" bucket: a set of objects {key, by, file}
    avatar,       \* per browser tab: the Profile page's avatar upload handler
    born,         \* history: task id -> the user_id and created_at it was inserted with
    writes        \* history: the number of writes the store has applied

vars == <<tasks, profiles, now, nextId, lastOp, session, user, loading, route,
          statusFilter, search, page, cache, fetching, fetches, storage, avatar,
          born, writes, getSession, lastEvent, events, pagination>>

storeVars == <<tasks, profiles, now, nextId, born, writes>>
hookVars  == <<getSession, lastEvent, events>>
authVars  == <<session, user, loading, route, hookVars>>
dashVars  == <<statusFilter, search, page, cache, fetching, fetches>>
profVars  == <<storage, avatar>>

----------------------------------------------------------------------------
(* Bounds of the model *)

MaxTasks == 2     \* rows ever inserted into tasks
MaxClock == 1     \* the clock runs 0..MaxClock
MaxWrites == 2    \* writes the store applies in one run

(* Program constants *)

pageSize == 10

Users  == {"u1", "u2"}
NoUser == "none"                 \* user = null, auth.uid() = NULL

Null      == <<"<null>">>        \* a text column holding NULL
Undefined == <<"<undefined>">>   \* a property that is undefined in JS
UndefinedStatus == "undefined"

TaskStatus == {"pending", "completed"}

Tabs == {1, 2}                   \* browser tabs (or devices) with the Profile page

\* the avatar handler of a tab whose hook holds user uid, before a file is
\* picked: isUploadingAvatar false, uploadError null
NoFile == [name |-> <<>>, type |-> "", size |-> 0]

\* "ellipsis" in PaginationControls' items, which are numbers otherwise
Ellipsis == 0

\* PaginationControls is not rendered
NoPagination == [page |-> 1, pageCount |-> 1, items |-> <<1>>, called |-> FALSE]

\* the hook is mounted: getSession() is called, its answer is to come
GetSessionCalled == [pc |-> "called", data |-> NoUser]

\* the callback of onAuthStateChange has not been called since the mount
NoEvent == [event |-> "none", identity |-> NoUser]

AvatarIdle(uid) ==
    [user |-> uid, pc |-> "idle", isUploadingAvatar |-> FALSE, uploadError |-> FALSE,
     file |-> NoFile, filePath |-> <<>>, picks |-> 0]

----------------------------------------------------------------------------
(* Strings *)

Min(a, b) == IF a < b THEN a ELSE b
Max(a, b) == IF a > b THEN a ELSE b

\* String.prototype.toLowerCase / the case folding of ILIKE, per character
ToLowerChar(c) == IF c = "A" THEN "a" ELSE IF c = "B" THEN "b" ELSE c

ToLower(s) == [i \in 1..Len(s) |-> ToLowerChar(s[i])]

RECURSIVE TrimStart(_)
TrimStart(s) ==
    IF s # <<>> /\ Head(s) = " " THEN TrimStart(Tail(s)) ELSE s

RECURSIVE TrimEnd(_)
TrimEnd(s) ==
    IF s # <<>> /\ s[Len(s)] = " " THEN TrimEnd(SubSeq(s, 1, Len(s) - 1)) ELSE s

\* String.prototype.trim
Trim(s) == TrimEnd(TrimStart(s))

\* text LIKE pattern: % matches any run of characters, _ any one character
RECURSIVE Like(_, _)
Like(t, p) ==
    IF p = <<>> THEN t = <<>>
    ELSE IF Head(p) = "%" THEN Like(t, Tail(p)) \/ (t # <<>> /\ Like(Tail(t), p))
    ELSE IF t = <<>> THEN FALSE
    ELSE (Head(p) = "_" \/ Head(p) = Head(t)) /\ Like(Tail(t), Tail(p))

\* text ILIKE pattern
ILike(t, p) == Like(ToLower(t), ToLower(p))

\* the characters that end a value inside PostgREST's or=(...) filter
OrReserved == {",", "(", ")"}

----------------------------------------------------------------------------
(* Row-level security and the trigger (the migrations) *)

\* a faulty variant: the select policy is missing
SelectPolicyMissing(uid, row) == TRUE

\* using (auth.uid() = user_id): NULL = x is not true
SelectPolicy(uid, row) == uid # NoUser /\ uid = row.user_id

\* a faulty variant: with check (auth.uid() is not null)
InsertPolicyAnyUser(uid, row) == uid # NoUser

\* with check (auth.uid() = user_id)
InsertPolicy(uid, row) == uid # NoUser /\ uid = row.user_id

\* for update using (auth.uid() = user_id); without a WITH CHECK clause the
\* USING expression is also applied to the new row
UpdatePolicy(uid, row) == uid # NoUser /\ uid = row.user_id

DeletePolicy(uid, row) == uid # NoUser /\ uid = row.user_id

\* a faulty variant: the trigger stamps both timestamps
TriggerStampsCreatedAt(new) == [new EXCEPT !.updated_at = now, !.created_at = now]

\* a faulty variant: the trigger leaves the row as the caller sent it
TriggerMissing(new) == new

\* before update ... for each row: new.updated_at = now()
update_updated_at_column(new) == [new EXCEPT !.updated_at = now]

----------------------------------------------------------------------------
(* The store: what PostgREST and Postgres do with the client's requests *)

\* JSON.stringify drops the properties whose value is undefined
JsonStringify(obj) ==
    LET keys == {k \in DOMAIN obj :
                    IF k = "status" THEN obj[k] # UndefinedStatus
                                    ELSE obj[k] # Undefined}
    IN  [k \in keys |-> obj[k]]

\* UPDATE ... SET <the columns of the body>
ApplyBody(row, body) ==
    [c \in DOMAIN row |-> IF c \in DOMAIN body THEN body[c] ELSE row[c]]

\* insert into tasks: id, created_at and updated_at take their defaults; a
\* missing user_id is NULL and violates NOT NULL; the policy checks the row
DbInsertTask(uid, payload) ==
    LET row == [id          |-> nextId,
                user_id     |-> payload.user_id,
                title       |-> payload.title,
                description |-> payload.description,
                status      |-> payload.status,
                created_at  |-> now,
                updated_at  |-> now]
    IN  IF row.user_id = NoUser \/ ~InsertPolicy(uid, row)
        THEN [ok |-> FALSE, tasks |-> tasks, row |-> row]
        ELSE [ok |-> TRUE, tasks |-> tasks \cup {row}, row |-> row]

\* update tasks set ... where id = $1: the rows the policy hides are not
\* updated and no error is raised; the trigger runs on each updated row
DbUpdateTask(uid, id, body) ==
    LET hit == {r \in tasks : r.id = id /\ UpdatePolicy(uid, r)}
        new == {update_updated_at_column(ApplyBody(r, body)) : r \in hit}
    IN  IF \E r \in new : r.title = Null \/ ~UpdatePolicy(uid, r)
        THEN [ok |-> FALSE, tasks |-> tasks, n |-> 0]
        ELSE [ok |-> TRUE, tasks |-> (tasks \ hit) \cup new, n |-> Cardinality(hit)]

\* delete from tasks where id = $1: the rows the policy hides are not deleted
\* and no error is raised
DbDeleteTask(uid, id) ==
    LET hit == {r \in tasks : r.id = id /\ DeletePolicy(uid, r)}
    IN  [ok |-> TRUE, tasks |-> tasks \ hit, n |-> Cardinality(hit)]

\* the upsert without a conflict target to hit: a plain insert
DbUpsertProfileAlwaysInserts(uid, payload) ==
    LET ins == [user_id    |-> payload.user_id,
                name       |-> payload.name,
                avatar_url |-> payload.avatar_url,
                created_at |-> now,
                updated_at |-> now]
    IN  IF ~InsertPolicy(uid, ins)
        THEN [ok |-> FALSE, profiles |-> profiles]
        ELSE [ok |-> TRUE, profiles |-> profiles \cup {ins}]

\* insert into profiles ... on conflict (user_id) do update set ...: the
\* insert policy checks the proposed row, the update policy the existing one
DbUpsertProfile(uid, payload) ==
    LET old == {r \in profiles : r.user_id = payload.user_id}
        ins == [user_id    |-> payload.user_id,
                name       |-> payload.name,
                avatar_url |-> payload.avatar_url,
                created_at |-> now,
                updated_at |-> now]
        upd == {update_updated_at_column(ApplyBody(r, payload)) : r \in old}
    IN  IF ~InsertPolicy(uid, ins) \/ \E r \in old \cup upd : ~UpdatePolicy(uid, r)
        THEN [ok |-> FALSE, profiles |-> profiles]
        ELSE IF old = {}
        THEN [ok |-> TRUE, profiles |-> profiles \cup {ins}]
        ELSE [ok |-> TRUE, profiles |-> (profiles \ old) \cup upd]

----------------------------------------------------------------------------
(* The dashboard's task query (Index.tsx, queryFn) *)

TieBreaks == {"asc", "desc"}

\* order by created_at desc; rows with equal created_at come in an order the
\* database chooses, here by id one way or the other
Before(r, q, tb) ==
    \/ r.created_at > q.created_at
    \/ r.created_at = q.created_at /\ (IF tb = "asc" THEN r.id < q.id ELSE r.id > q.id)

RECURSIVE OrderByCreatedAtDesc(_, _)
OrderByCreatedAtDesc(S, tb) ==
    IF S = {} THEN <<>>
    ELSE LET first == CHOOSE r \in S : \A q \in S \ {r} : Before(r, q, tb)
         IN  <<first>> \o OrderByCreatedAtDesc(S \ {first}, tb)

\* select("id, title, description, status, created_at")
SelectColumns(r) ==
    [id |-> r.id, title |-> r.title, description |-> r.description,
     status |-> r.status, created_at |-> r.created_at]

\* title.ilike.%s% , description.ilike.%s% ; NULL ILIKE p is not true
OrFilter(r, searchValue) ==
    \/ ILike(r.title, searchValue)
    \/ r.description # Null /\ ILike(r.description, searchValue)

\* The request the queryFn builds, answered by the store for auth.uid() = uid:
\* policy, status filter, or-filter, order, range(from, to) with count: "exact".
\* PostgREST refuses an or=(...) whose value holds a reserved character
\* (PGRST100) and an offset beyond the counted rows (PGRST103).
queryFn(uid, sf, srch, pg, tb) ==
    LET visible  == {r \in tasks : SelectPolicy(uid, r)}
        byStatus == IF sf # "all" THEN {r \in visible : r.status = sf} ELSE visible
        trimmed  == Trim(srch)
        searchValue == <<"%">> \o trimmed \o <<"%">>
        matching == IF trimmed # <<>>
                    THEN {r \in byStatus : OrFilter(r, searchValue)}
                    ELSE byStatus
        from  == (pg - 1) * pageSize
        to    == from + pageSize - 1
        count == Cardinality(matching)
        rows  == OrderByCreatedAtDesc(matching, tb)
    IN  IF trimmed # <<>> /\ \E i \in 1..Len(trimmed) : trimmed[i] \in OrReserved
        THEN [ok |-> FALSE, data |-> <<>>, count |-> 0, code |-> "PGRST100"]
        ELSE IF from > count
        THEN [ok |-> FALSE, data |-> <<>>, count |-> 0, code |-> "PGRST103"]
        ELSE [ok |-> TRUE,
              data |-> [i \in 1..(Min(to + 1, count) - Min(from, count)) |->
                           SelectColumns(rows[from + i])],
              count |-> count, code |-> "200"]

\* Profile.tsx: from("profiles").select(...).eq("user_id", user.id).maybeSingle()
profileQueryFn(uid, userId) ==
    LET rows == {r \in profiles : SelectPolicy(uid, r) /\ r.user_id = userId}
    IN  IF userId = NoUser THEN <<>>
        ELSE IF rows = {} THEN <<>>
        ELSE <<CHOOSE r \in rows : TRUE>>

----------------------------------------------------------------------------
(* The data-access calls: each mutationFn / queryFn with what it reports *)

\* What the last call did: op, the session it ran under (caller), the user
\* the hook held (uid), the task id, ok = it took the success path, the rows
\* a query returned, the number of rows a write touched.
Op(op, caller, uid, id, ok, data, n) ==
    [op |-> op, caller |-> caller, uid |-> uid, id |-> id, ok |-> ok,
     data |-> data, n |-> n]

NoOp == [op |-> "none", caller |-> NoUser, uid |-> NoUser, id |-> 0, ok |-> TRUE,
         data |-> <<>>, n |-> 0]

\* the store applies n more writes
Written(n) ==
    /\ writes + n <= MaxWrites
    /\ writes' = writes + n

\* createTask.mutationFn: insert({title, description: description || null,
\* status, user_id: user?.id}); if (error) throw error
createTaskFn(caller, uid, title, description, status) ==
    LET res == DbInsertTask(caller,
                   [title |-> title,
                    description |-> IF description = <<>> THEN Null ELSE description,
                    status |-> status,
                    user_id |-> uid])
    IN  /\ res.ok => nextId <= MaxTasks
        /\ Written(IF res.ok THEN 1 ELSE 0)
        /\ tasks' = res.tasks
        /\ nextId' = IF res.ok THEN nextId + 1 ELSE nextId
        /\ born' = IF res.ok
                   THEN [i \in DOMAIN born \cup {nextId} |->
                            IF i = nextId
                            THEN [user_id |-> res.row.user_id,
                                  created_at |-> res.row.created_at]
                            ELSE born[i]]
                   ELSE born
        /\ lastOp' = Op("createTask", caller, uid, IF res.ok THEN nextId ELSE 0,
                        res.ok, <<>>, IF res.ok THEN 1 ELSE 0)

\* updateTask.mutationFn: update({title: task.title, description:
\* task.description, status: task.status}).eq("id", task.id); if (error) throw
updateTaskFn(caller, task) ==
    LET body == JsonStringify([title |-> task.title,
                               description |-> task.description,
                               status |-> task.status])
        res  == DbUpdateTask(caller, task.id, body)
    IN  /\ Written(res.n)
        /\ tasks' = res.tasks
        /\ lastOp' = Op("updateTask", caller, NoUser, task.id, res.ok, <<>>, res.n)
        /\ UNCHANGED <<nextId, born>>

\* handleToggleStatus sending description: null along with the status
handleToggleStatusNullsDescription(caller, task) ==
    updateTaskFn(caller,
        [id |-> task.id, title |-> Undefined, description |-> Null,
         status |-> IF task.status = "pending" THEN "completed" ELSE "pending"])

\* handleToggleStatus: updateTask.mutate({id, status: the opposite of the
\* status the list shows})
handleToggleStatus(caller, task) ==
    updateTaskFn(caller,
        [id |-> task.id, title |-> Undefined, description |-> Undefined,
         status |-> IF task.status = "pending" THEN "completed" ELSE "pending"])

\* deleteTask.mutationFn: delete().eq("id", id); if (error) throw error
deleteTaskFn(caller, id) ==
    LET res == DbDeleteTask(caller, id)
    IN  /\ Written(res.n)
        /\ tasks' = res.tasks
        /\ lastOp' = Op("deleteTask", caller, NoUser, id, res.ok, <<>>, res.n)
        /\ UNCHANGED <<nextId, born>>

\* upsertProfile.mutationFn: if (!user) return; upsert({user_id: user.id,
\* name: name || null, avatar_url: finalAvatarUrl || null},
\* {onConflict: "user_id"}); if (error) throw error
upsertProfileFn(caller, uid, name, avatarUrl) ==
    LET payload == [user_id |-> uid,
                    name |-> IF name = <<>> THEN Null ELSE name,
                    avatar_url |-> IF avatarUrl = <<>> THEN Null ELSE avatarUrl]
        res == DbUpsertProfile(caller, payload)
    IN  IF uid = NoUser
        THEN /\ profiles' = profiles
             /\ Written(0)
             /\ lastOp' = Op("upsertProfile", caller, uid, 0, TRUE, <<>>, 0)
        ELSE /\ Written(IF res.ok THEN 1 ELSE 0)
             /\ profiles' = res.profiles
             /\ lastOp' = Op("upsertProfile", caller, uid, 0, res.ok, <<payload>>,
                             IF res.ok THEN 1 ELSE 0)

----------------------------------------------------------------------------
(* Spec: the data-access calls against the store, one at a time, for every *)
(* session the client may hold and every user the hook may hold            *)

Callers == Users \cup {NoUser}

FormTitles       == {<<"a">>}
FormDescriptions == {<<>>, <<"a">>}
FormNames        == {<<>>, <<"n">>}
FormAvatarUrls   == {<<"x">>}
StatusFilters    == {"all"} \cup TaskStatus

Init ==
    /\ tasks = {}
    /\ profiles = {}
    /\ now = 0
    /\ nextId = 1
    /\ born = <<>>
    /\ writes = 0
    /\ lastOp = NoOp
    /\ session = NoUser
    /\ user = NoUser
    /\ loading = FALSE
    /\ route = "/"
    /\ getSession = GetSessionCalled
    /\ lastEvent = NoEvent
    /\ events = <<>>
    /\ pagination = NoPagination
    /\ statusFilter = "all"
    /\ search = <<>>
    /\ page = 1
    /\ cache = {}
    /\ fetching = {}
    /\ fetches = 0
    /\ storage = {}
    /\ avatar = [t \in Tabs |-> AvatarIdle(NoUser)]

\* the store's clock advances
Tick ==
    /\ lastOp = NoOp
    /\ now < MaxClock
    /\ now' = now + 1
    /\ UNCHANGED <<tasks, profiles, nextId, born, writes, lastOp, authVars, dashVars, profVars,
                   pagination>>

\* the caller has taken the outcome of its call (onSuccess / onError ran);
\* the next call starts after it
Settle ==
    /\ lastOp # NoOp
    /\ lastOp' = NoOp
    /\ UNCHANGED <<storeVars, authVars, dashVars, profVars, pagination>>

ListTasks ==
    \E caller \in Callers, sf \in StatusFilters, tb \in TieBreaks :
        LET res == queryFn(caller, sf, <<>>, 1, tb)
        IN  /\ lastOp = NoOp
            /\ lastOp' = Op("listTasks", caller, NoUser, 0, res.ok, res.data, 0)
            /\ UNCHANGED <<storeVars, authVars, dashVars, profVars, pagination>>

GetProfile ==
    \E caller \in Callers, uid \in Users :
        /\ lastOp = NoOp
        /\ lastOp' = Op("getProfile", caller, uid, 0, TRUE,
                        profileQueryFn(caller, uid), 0)
        /\ UNCHANGED <<storeVars, authVars, dashVars, profVars, pagination>>

CreateTask ==
    \E caller \in Callers, uid \in Callers, t \in FormTitles,
       d \in FormDescriptions, s \in TaskStatus :
        /\ lastOp = NoOp
        /\ createTaskFn(caller, uid, t, d, s)
        /\ UNCHANGED <<profiles, now, authVars, dashVars, profVars, pagination>>

ToggleStatus ==
    \E caller \in Callers, id \in 1..(nextId - 1), shown \in TaskStatus :
        /\ lastOp = NoOp
        /\ handleToggleStatus(caller, [id |-> id, status |-> shown])
        /\ UNCHANGED <<profiles, now, authVars, dashVars, profVars, pagination>>

DeleteTask ==
    \E caller \in Callers, id \in 1..(nextId - 1) :
        /\ lastOp = NoOp
        /\ deleteTaskFn(caller, id)
        /\ UNCHANGED <<profiles, now, authVars, dashVars, profVars, pagination>>

UpsertProfile ==
    \E caller \in Callers, uid \in Callers, n \in FormNames, a \in FormAvatarUrls :
        /\ lastOp = NoOp
        /\ upsertProfileFn(caller, uid, n, a)
        /\ UNCHANGED <<tasks, nextId, born, now, authVars, dashVars, profVars, pagination>>

Next ==
    \/ Tick
    \/ Settle
    \/ ListTasks
    \/ GetProfile
    \/ CreateTask
    \/ ToggleStatus
    \/ DeleteTask
    \/ UpsertProfile

Spec == Init /\ [][Next]_vars

----------------------------------------------------------------------------
(* SpecQuery: the task query as a function of the table and of the         *)
(* dashboard's page, statusFilter and search                               *)

QMaxRows == 16    \* rows in the table
QMaxPage == 3     \* pages requested, 1..QMaxPage

\* titles and descriptions of the rows, by position in the table
QTitles ==
    << <<"a", "b">>, <<"A">>, <<"b">>, <<"a", "_", "b">>, <<"b", " ", "a">>,
       <<"b", ",">> >>

QDescriptions == << Null, <<"a">>, <<"B">>, Null, <<"%">> >>

QSearches ==
    { <<>>, <<"a">>, <<"A", "B">>, <<"_">>, <<"%">>, <<" ">>, <<" ", "a">>,
      <<"b", " ">>, <<",">> }

\* the i-th row of a table: every fourth row belongs to u2, every k-th row is
\* completed, rows are inserted two per clock tick
QRow(i, k) ==
    [id          |-> i,
     user_id     |-> IF i % 4 = 0 THEN "u2" ELSE "u1",
     title       |-> QTitles[(i % Len(QTitles)) + 1],
     description |-> QDescriptions[(i % Len(QDescriptions)) + 1],
     status      |-> IF i % k = 0 THEN "completed" ELSE "pending",
     created_at  |-> (i + 1) \div 2,
     updated_at  |-> (i + 1) \div 2]

InitQuery ==
    /\ \E n \in 0..QMaxRows, k \in 1..3 :
          /\ tasks = {QRow(i, k) : i \in 1..n}
          /\ nextId = n + 1
          /\ born = [i \in 1..n |-> [user_id |-> QRow(i, k).user_id,
                                      created_at |-> QRow(i, k).created_at]]
          /\ now = (n + 1) \div 2
    /\ profiles = {}
    /\ writes = 0
    /\ lastOp = NoOp
    /\ session \in Users
    /\ user = session
    /\ loading = FALSE
    /\ route = "/"
    /\ getSession = GetSessionCalled
    /\ lastEvent = NoEvent
    /\ events = <<>>
    /\ pagination = NoPagination
    /\ statusFilter \in StatusFilters
    /\ search \in QSearches
    /\ page \in 1..QMaxPage
    /\ cache = {}
    /\ fetching = {}
    /\ fetches = 0
    /\ storage = {}
    /\ avatar = [t \in Tabs |-> AvatarIdle(NoUser)]

\* the queryFn runs for the dashboard's current page, statusFilter and search
RunQuery ==
    \E tb \in TieBreaks :
        LET res == queryFn(session, statusFilter, search, page, tb)
        IN  /\ lastOp = NoOp
            /\ lastOp' = Op("listTasks", session, user, 0, res.ok, res.data, res.count)
            /\ UNCHANGED <<storeVars, authVars, dashVars, profVars, pagination>>

NextQuery == RunQuery

SpecQuery == InitQuery /\ [][NextQuery]_vars

----------------------------------------------------------------------------
(* SpecDash: the dashboard (Index.tsx) with the auth hook and the query     *)
(* cache, from application start, for two users who sign in and out of the  *)
(* same browser tab. With fewer than eleven rows PaginationControls is not  *)
(* rendered, so the page stays 1; the search box is left empty (SpecQuery   *)
(* covers the search strings).                                              *)

DMaxFetches == 2    \* fetches the query client starts in one run

\* the description typed into the form
DFormDescriptions == {<<>>}

\* queryKey: ["tasks", {page, pageSize, statusFilter, search}]
queryKey ==
    [page |-> page, pageSize |-> pageSize, statusFilter |-> statusFilter,
     search |-> search]

\* a query the cache holds nothing for: data undefined, no error
NoData(k) == [key |-> k, hasData |-> FALSE, data |-> <<>>, count |-> 0, error |-> FALSE]

\* the cache's state of the query with key k
QueryState(k) ==
    IF \E e \in cache : e.key = k THEN CHOOSE e \in cache : e.key = k ELSE NoData(k)

SetQueryState(e) == {x \in cache : x.key # e.key} \cup {e}

\* a tasks query that is enabled whatever the hook holds
enabledAlways == TRUE

\* enabled: !!user
enabled == user # NoUser

\* what useQuery returns for the current key: data (kept across a failed
\* refetch), isLoading (no data yet, first fetch pending), error
tasksData == QueryState(queryKey)

isLoading == ~tasksData.hasData /\ ~tasksData.error

tasksError == tasksData.error

\* const tasks = tasksData?.data ?? []; filteredTasks = tasks
filteredTasks == IF tasksData.hasData THEN tasksData.data ELSE <<>>

\* const totalCount = tasksData?.count ?? 0
totalCount == IF tasksData.hasData THEN tasksData.count ELSE 0

\* Math.ceil(a / b) for a >= 0, b > 0
Ceil(a, b) == (a + b - 1) \div b

\* pageCount without Math.max(1, ...)
pageCountWithoutMax == Ceil(totalCount, pageSize)

\* const pageCount = Math.max(1, Math.ceil(totalCount / pageSize))
pageCount == Max(1, Ceil(totalCount, pageSize))

\* Index renders the dashboard: not the spinner, not <Navigate to="/auth">
dashboardShown == route = "/" /\ ~loading /\ user # NoUser

\* the <li> items of the task list: none while the skeleton or the error
\* panel is shown
renderedTasks ==
    IF dashboardShown /\ ~isLoading /\ ~tasksError THEN filteredTasks ELSE <<>>

\* Index unmounts: its useState values are gone, the next mount starts from
\* the initial values
IndexUnmounted ==
    /\ statusFilter' = "all"
    /\ search' = <<>>
    /\ page' = 1

\* application start on "/": Index is mounted, the hook is loading, the
\* client may hold a persisted session
InitDash ==
    /\ tasks = {}
    /\ profiles = {}
    /\ now = 0
    /\ nextId = 1
    /\ born = <<>>
    /\ writes = 0
    /\ lastOp = NoOp
    /\ session \in Callers
    /\ user = NoUser
    /\ loading = TRUE
    /\ route = "/"
    /\ getSession = GetSessionCalled
    /\ lastEvent = NoEvent
    /\ events = <<>>
    /\ pagination = NoPagination
    /\ statusFilter = "all"
    /\ search = <<>>
    /\ page = 1
    /\ cache = {}
    /\ fetching = {}
    /\ fetches = 0
    /\ storage = {}
    /\ avatar = [t \in Tabs |-> AvatarIdle(NoUser)]

\* useAuthState: getSession() resolves: setSession, setUser, setLoading(false)
GetSessionResolved ==
    /\ route = "/"
    /\ loading
    /\ user' = session
    /\ loading' = FALSE
    /\ UNCHANGED <<session, route, storeVars, lastOp, dashVars, profVars,
                    hookVars, pagination>>

\* Index: if (!loading && !user) return <Navigate to="/auth" replace />
NavigateToAuth ==
    /\ route = "/"
    /\ ~loading
    /\ user = NoUser
    /\ route' = "/auth"
    /\ IndexUnmounted
    /\ UNCHANGED <<session, user, loading, storeVars, lastOp, cache, fetching, fetches, profVars,
                    hookVars, pagination>>

\* AuthPage.handleSignIn: signInWithPassword succeeds, navigate("/"); Index
\* mounts with a new useAuthState: user null, loading true
SignIn ==
    \E u \in Users :
        /\ route = "/auth"
        /\ lastOp = NoOp
        /\ session' = u
        /\ route' = "/"
        /\ user' = NoUser
        /\ loading' = TRUE
        /\ IndexUnmounted
        /\ UNCHANGED <<storeVars, lastOp, cache, fetching, fetches, profVars,
                        hookVars, pagination>>

\* handleLogout: signOut() succeeds; the hook's callback takes SIGNED_OUT:
\* setSession(null), setUser(null), navigate("/auth"); Index unmounts
Logout ==
    /\ dashboardShown
    /\ lastOp = NoOp
    /\ session' = NoUser
    /\ user' = NoUser
    /\ route' = "/auth"
    /\ IndexUnmounted
    /\ UNCHANGED <<loading, storeVars, lastOp, cache, fetching, fetches, profVars,
                    hookVars, pagination>>

\* the query observer fetches the current key (on mount, on a new key, after
\* invalidateQueries, on window focus; staleTime is 0), unless a fetch of the
\* key is in flight; the request carries the client's session. A query
\* without data goes back to pending.
FetchStart ==
    /\ route = "/"
    /\ enabled
    /\ fetches < DMaxFetches
    /\ ~\E f \in fetching : f.key = queryKey
    /\ fetching' = fetching \cup {[key |-> queryKey, as |-> session]}
    /\ fetches' = fetches + 1
    /\ cache' = IF tasksData.hasData THEN cache ELSE {x \in cache : x.key # queryKey}
    /\ UNCHANGED <<storeVars, lastOp, authVars, statusFilter, search, page, profVars,
                   pagination>>

\* a fetch whose result is shown as the result of the parameters now set,
\* whatever parameters it was made with
FetchRespondIntoCurrentKey ==
    \E f \in fetching, tb \in TieBreaks, net \in BOOLEAN :
        LET res == queryFn(f.as, f.key.statusFilter, f.key.search, f.key.page, tb)
            old == QueryState(queryKey)
        IN  /\ fetching' = fetching \ {f}
            /\ cache' = SetQueryState(
                            IF net /\ res.ok
                            THEN [key |-> queryKey, hasData |-> TRUE, data |-> res.data,
                                  count |-> res.count, error |-> FALSE]
                            ELSE [old EXCEPT !.error = TRUE])
            /\ UNCHANGED <<storeVars, lastOp, authVars, statusFilter, search, page, fetches, profVars,
                           pagination>>

\* a fetch ends, whether or not Index is still mounted: the queryFn's result
\* becomes the query's data, or it throws (the store's error, or the network
\* failed) and the query keeps its data and holds the error
FetchRespond ==
    \E f \in fetching, tb \in TieBreaks, net \in BOOLEAN :
        LET res == queryFn(f.as, f.key.statusFilter, f.key.search, f.key.page, tb)
            old == QueryState(f.key)
        IN  /\ fetching' = fetching \ {f}
            /\ cache' = SetQueryState(
                            IF net /\ res.ok
                            THEN [key |-> f.key, hasData |-> TRUE, data |-> res.data,
                                  count |-> res.count, error |-> FALSE]
                            ELSE [old EXCEPT !.error = TRUE])
            /\ UNCHANGED <<storeVars, lastOp, authVars, statusFilter, search, page, fetches, profVars,
                           pagination>>

\* the cache drops a query nothing observes (gcTime after it became inactive)
Gc ==
    \E e \in cache :
        /\ route # "/" \/ e.key # queryKey
        /\ ~\E f \in fetching : f.key = e.key
        /\ cache' = cache \ {e}
        /\ UNCHANGED <<storeVars, lastOp, authVars, statusFilter, search, page,
                       fetching, fetches, profVars, pagination>>

\* the status Select: setStatusFilter(value); setPage(1)
SetStatusFilter ==
    \E value \in StatusFilters \ {statusFilter} :
        /\ dashboardShown
        /\ lastOp = NoOp
        /\ statusFilter' = value
        /\ page' = 1
        /\ UNCHANGED <<storeVars, lastOp, authVars, search, cache, fetching, fetches, profVars,
                       pagination>>

\* "Clear filters", shown with an empty list under a search or a filter
ClearFilters ==
    /\ dashboardShown
    /\ lastOp = NoOp
    /\ ~isLoading /\ ~tasksError /\ filteredTasks = <<>>
    /\ Trim(search) # <<>> \/ statusFilter # "all"
    /\ IndexUnmounted
    /\ UNCHANGED <<storeVars, lastOp, authVars, cache, fetching, fetches, profVars,
                   pagination>>

\* "Add Task" (disabled while the title is blank): createTask.mutate()
ClickAddTask ==
    \E t \in FormTitles, d \in DFormDescriptions, s \in TaskStatus :
        /\ dashboardShown
        /\ lastOp = NoOp
        /\ createTaskFn(session, user, t, d, s)
        /\ UNCHANGED <<profiles, now, authVars, dashVars, profVars, pagination>>

\* "Mark done" / "Mark pending" on a rendered task
ClickToggleStatus ==
    \E i \in DOMAIN renderedTasks :
        /\ lastOp = NoOp
        /\ handleToggleStatus(session, renderedTasks[i])
        /\ UNCHANGED <<profiles, now, authVars, dashVars, profVars, pagination>>

\* "Delete" on a rendered task: deleteTask.mutate(task.id)
ClickDelete ==
    \E i \in DOMAIN renderedTasks :
        /\ lastOp = NoOp
        /\ deleteTaskFn(session, renderedTasks[i].id)
        /\ UNCHANGED <<profiles, now, authVars, dashVars, profVars, pagination>>

NextDash ==
    \/ GetSessionResolved
    \/ NavigateToAuth
    \/ SignIn
    \/ Logout
    \/ FetchStart
    \/ FetchRespond
    \/ Gc
    \/ SetStatusFilter
    \/ ClearFilters
    \/ ClickAddTask
    \/ ClickToggleStatus
    \/ ClickDelete
    \/ Settle

SpecDash == InitDash /\ [][NextDash]_vars

----------------------------------------------------------------------------
(* SpecList: the dashboard of a signed-in user over a table that already    *)
(* holds tasks: the list is fetched and refetched, and the user clicks the  *)
(* toggle and delete buttons of the tasks the list shows                    *)

LMaxRows == 3    \* rows in the table at the start

\* the i-th row of the table: odd rows belong to u1, even rows to u2
LRow(i) == [QRow(i, 2) EXCEPT !.user_id = IF i % 2 = 0 THEN "u2" ELSE "u1"]

InitList ==
    /\ \E n \in 1..LMaxRows :
          /\ tasks = {LRow(i) : i \in 1..n}
          /\ nextId = n + 1
          /\ born = [i \in 1..n |-> [user_id |-> LRow(i).user_id,
                                      created_at |-> LRow(i).created_at]]
          /\ now = (n + 1) \div 2 + 1
    /\ profiles = {}
    /\ writes = 0
    /\ lastOp = NoOp
    /\ session \in Users
    /\ user = session
    /\ loading = FALSE
    /\ route = "/"
    /\ getSession = GetSessionCalled
    /\ lastEvent = NoEvent
    /\ events = <<>>
    /\ pagination = NoPagination
    /\ statusFilter = "all"
    /\ search = <<>>
    /\ page = 1
    /\ cache = {}
    /\ fetching = {}
    /\ fetches = 0
    /\ storage = {}
    /\ avatar = [t \in Tabs |-> AvatarIdle(NoUser)]

NextList ==
    \/ FetchStart
    \/ FetchRespond
    \/ SetStatusFilter
    \/ ClickToggleStatus
    \/ ClickDelete
    \/ Settle

SpecList == InitList /\ [][NextList]_vars

----------------------------------------------------------------------------
(* SpecAvatar: the Profile page's avatar upload (the file input's onChange) *)
(* and its Save button, in two browser tabs: the first signed in as u1, the *)
(* second as u1 or as u2                                                    *)

AMaxPicks == 2    \* files picked in one run, all tabs together

AFormNames == {<<"n">>}    \* the name field of the profile form

\* the files a user may pick: name, content type, size in MiB
AFiles ==
    { [name |-> <<"a", ".", "p">>, type |-> "image/png",  size |-> 1],
      [name |-> <<"b", ".", "p">>, type |-> "image/png",  size |-> 10],
      [name |-> <<"c", ".", "t">>, type |-> "text/plain", size |-> 1] }

\* file.name.split(".").pop()
FileExt(name) ==
    LET dots == {i \in 1..Len(name) : name[i] = "."}
    IN  IF dots = {} THEN name
        ELSE SubSeq(name, (CHOOSE i \in dots : \A j \in dots : j <= i) + 1, Len(name))

\* filePath = `${user.id}/${user.id}-${Date.now()}.${fileExt}`
FilePath(uid, ms, fileExt) == <<uid, "/", uid, "-", ms, ".">> \o fileExt

\* getPublicUrl(filePath).data.publicUrl
PublicUrl(filePath) == <<"avatars/">> \o filePath

InitAvatar ==
    /\ tasks = {}
    /\ profiles = {}
    /\ now = 0
    /\ nextId = 1
    /\ born = <<>>
    /\ writes = 0
    /\ lastOp = NoOp
    /\ session = NoUser
    /\ user = NoUser
    /\ loading = FALSE
    /\ route = "/"
    /\ getSession = GetSessionCalled
    /\ lastEvent = NoEvent
    /\ events = <<>>
    /\ pagination = NoPagination
    /\ statusFilter = "all"
    /\ search = <<>>
    /\ page = 1
    /\ cache = {}
    /\ fetching = {}
    /\ fetches = 0
    /\ storage = {}
    /\ avatar \in {[t \in Tabs |-> AvatarIdle(u[t])] :
                       u \in {v \in [Tabs -> Users] : v[1] = "u1"}}

\* onChange: if (!file || !user) return; setUploadError(null);
\* setIsUploadingAvatar(true); the upload of the file to filePath is requested.
\* The "Upload avatar" button that opens the file dialog is disabled while
\* isUploadingAvatar.
PickFile(t) ==
    \E file \in AFiles :
        /\ avatar[t].pc = "idle"
        /\ ~avatar[t].isUploadingAvatar
        /\ avatar[t].user # NoUser
        /\ avatar[1].picks + avatar[2].picks < AMaxPicks
        /\ avatar' = [avatar EXCEPT ![t] =
                         [@ EXCEPT !.pc = "uploading",
                                   !.picks = @ + 1,
                                   !.isUploadingAvatar = TRUE,
                                   !.uploadError = FALSE,
                                   !.file = file,
                                   !.filePath = FilePath(avatar[t].user, now,
                                                        FileExt(file.name))]]
        /\ UNCHANGED <<storeVars, lastOp, authVars, dashVars, storage, pagination>>

\* an upload whose answer already writes the avatar_url into the profile row
UploadRespondsWritesProfile(t) ==
    /\ avatar[t].pc = "uploading"
    /\ storage' = {o \in storage : o.key # avatar[t].filePath}
                      \cup {[key |-> avatar[t].filePath, by |-> avatar[t].user,
                             file |-> avatar[t].file]}
    /\ profiles' = DbUpsertProfile(avatar[t].user,
                                   [user_id |-> avatar[t].user, name |-> Null,
                                    avatar_url |-> PublicUrl(avatar[t].filePath)]).profiles
    /\ avatar' = [avatar EXCEPT ![t] = [@ EXCEPT !.pc = "upserting"]]
    /\ UNCHANGED <<tasks, now, nextId, born, writes, lastOp, authVars, dashVars,
                   pagination>>

\* storage.from("avatars").upload(filePath, file, {upsert: true}) answers: an
\* error ends the handler (isUploadingAvatar false, uploadError set); else the
\* object is stored under filePath, replacing what the key held,
\* setAvatarUrl(publicUrl) and upsertProfile.mutateAsync is called
UploadResponds(t) ==
    \E ok \in BOOLEAN :
        /\ avatar[t].pc = "uploading"
        /\ storage' = IF ok
                      THEN {o \in storage : o.key # avatar[t].filePath}
                             \cup {[key |-> avatar[t].filePath, by |-> avatar[t].user,
                                    file |-> avatar[t].file]}
                      ELSE storage
        /\ avatar' = [avatar EXCEPT ![t] =
                         IF ok THEN [@ EXCEPT !.pc = "upserting"]
                         ELSE [@ EXCEPT !.pc = "idle", !.isUploadingAvatar = FALSE,
                                        !.uploadError = TRUE,
                                        !.file = NoFile, !.filePath = <<>>]]
        /\ UNCHANGED <<storeVars, lastOp, authVars, dashVars, pagination>>

\* await upsertProfile.mutateAsync({overrideAvatarUrl: publicUrl}) settles: on
\* success setIsUploadingAvatar(false); if the upsert fails (the store's
\* error, or the network) mutateAsync throws and the handler ends there
UpsertAvatarResponds(t) ==
    \E net \in BOOLEAN, name \in AFormNames :
        /\ avatar[t].pc = "upserting"
        /\ lastOp = NoOp
        /\ IF net
           THEN upsertProfileFn(avatar[t].user, avatar[t].user, name,
                                PublicUrl(avatar[t].filePath))
           ELSE /\ lastOp' = Op("upsertProfile", avatar[t].user, avatar[t].user, 0,
                                FALSE, <<>>, 0)
                /\ UNCHANGED <<profiles, writes>>
        /\ avatar' = [avatar EXCEPT ![t] =
                         [@ EXCEPT !.pc = "idle", !.isUploadingAvatar = ~lastOp'.ok,
                                   !.file = NoFile, !.filePath = <<>>]]
        /\ UNCHANGED <<tasks, now, nextId, born, authVars, dashVars, storage, pagination>>

\* "Save changes": upsertProfile.mutate({}) with the form's name and avatarUrl
SaveProfile(t) ==
    \E name \in AFormNames, avatarUrl \in FormAvatarUrls :
        /\ lastOp = NoOp
        /\ upsertProfileFn(avatar[t].user, avatar[t].user, name, avatarUrl)
        /\ UNCHANGED <<tasks, now, nextId, born, authVars, dashVars, profVars, pagination>>

NextAvatar ==
    \/ \E t \in Tabs : PickFile(t)
    \/ \E t \in Tabs : UploadResponds(t)
    \/ \E t \in Tabs : UpsertAvatarResponds(t)
    \/ \E t \in Tabs : SaveProfile(t)
    \/ Tick
    \/ Settle

SpecAvatar == InitAvatar /\ [][NextAvatar]_vars

----------------------------------------------------------------------------
(* SpecAuth: useAuthState in the page that is mounted (Index on "/",         *)
(* AuthPage on "/auth", Profile on "/profile"): the subscription's callback, *)
(* the getSession() call of the mount, and the pages' redirects. The hook's  *)
(* session state is set together with user and always holds the session     *)
(* user belongs to.                                                          *)

AMaxEvents == 2    \* auth events waiting for the callback at one time

AuthEvents == {"SIGNED_IN", "TOKEN_REFRESHED", "SIGNED_OUT", "USER_UPDATED"}

Routes == {"/", "/auth", "/profile"}

\* application start on any page; the client may hold a persisted session
InitAuth ==
    /\ tasks = {}
    /\ profiles = {}
    /\ now = 0
    /\ nextId = 1
    /\ born = <<>>
    /\ writes = 0
    /\ lastOp = NoOp
    /\ session \in Callers
    /\ user = NoUser
    /\ loading = TRUE
    /\ route \in Routes
    /\ getSession = GetSessionCalled
    /\ lastEvent = NoEvent
    /\ events = <<>>
    /\ pagination = NoPagination
    /\ statusFilter = "all"
    /\ search = <<>>
    /\ page = 1
    /\ cache = {}
    /\ fetching = {}
    /\ fetches = 0
    /\ storage = {}
    /\ avatar = [t \in Tabs |-> AvatarIdle(NoUser)]

\* navigate(to, {replace: true}) to another page: the page and its hook are
\* unmounted (unsubscribe; a pending getSession() answer of the old hook sets
\* the state of nothing), the page of the route mounts with a new hook:
\* useState(null), useState(true), the effect subscribes and calls getSession()
Mount(to) ==
    /\ route' = to
    /\ user' = NoUser
    /\ loading' = TRUE
    /\ getSession' = GetSessionCalled
    /\ lastEvent' = NoEvent

\* getSession() reads the client's current session
GetSessionRead ==
    /\ getSession.pc = "called"
    /\ getSession' = [pc |-> "read", data |-> session]
    /\ UNCHANGED <<session, user, loading, route, lastEvent, events, storeVars,
                   lastOp, dashVars, profVars, pagination>>

\* .then(({data}) => {setSession(data.session); setUser(data.session?.user ??
\* null)}).finally(() => setLoading(false))
GetSessionThen ==
    /\ getSession.pc = "read"
    /\ user' = getSession.data
    /\ loading' = FALSE
    /\ getSession' = [pc |-> "done", data |-> NoUser]
    /\ UNCHANGED <<session, route, lastEvent, events, storeVars, lastOp, dashVars,
                   profVars, pagination>>

\* getSession() rejects: .then's callback is skipped, .finally(() =>
\* setLoading(false)) runs
GetSessionRejects ==
    /\ getSession.pc \in {"called", "read"}
    /\ loading' = FALSE
    /\ getSession' = [pc |-> "done", data |-> NoUser]
    /\ UNCHANGED <<session, user, route, lastEvent, events, storeVars, lastOp,
                   dashVars, profVars, pagination>>

\* the client's session changes: a sign-in, a token refresh, a sign-out or an
\* update of the user, in this tab or in another tab of the browser; its
\* subscribers are to be told
SessionChange ==
    \E event \in AuthEvents, u \in Users :
        LET newSession == IF event = "SIGNED_OUT" THEN NoUser ELSE u
        IN  /\ Len(events) < AMaxEvents
            /\ event = "SIGNED_IN" => session = NoUser
            /\ event = "TOKEN_REFRESHED" => session = u
            /\ event = "SIGNED_OUT" => session = u
            /\ event = "USER_UPDATED" => session = u
            /\ session' = newSession
            /\ events' = Append(events, [event |-> event, session |-> newSession])
            /\ UNCHANGED <<user, loading, route, getSession, lastEvent, storeVars,
                           lastOp, dashVars, profVars, pagination>>

\* a callback that leaves the route alone until getSession() has settled
AuthStateChangeWaitsForSession ==
    /\ events # <<>>
    /\ LET event      == Head(events).event
           newSession == Head(events).session
           to         == IF loading THEN route
                         ELSE IF event = "SIGNED_OUT" THEN "/auth"
                         ELSE IF event \in {"SIGNED_IN", "TOKEN_REFRESHED"} THEN "/"
                         ELSE route
       IN  IF to = route
           THEN /\ user' = newSession
                /\ lastEvent' = [event |-> event, identity |-> newSession]
                /\ UNCHANGED <<loading, route, getSession>>
           ELSE Mount(to)
    /\ events' = Tail(events)
    /\ UNCHANGED <<session, storeVars, lastOp, dashVars, profVars, pagination>>

\* the callback of onAuthStateChange is called with (event, newSession):
\* setSession(newSession); setUser(newSession?.user ?? null); SIGNED_IN and
\* TOKEN_REFRESHED navigate to "/", SIGNED_OUT navigates to "/auth", any other
\* event leaves the route
AuthStateChange ==
    /\ events # <<>>
    /\ LET event      == Head(events).event
           newSession == Head(events).session
           to         == IF event = "SIGNED_OUT" THEN "/auth"
                         ELSE IF event \in {"SIGNED_IN", "TOKEN_REFRESHED"} THEN "/"
                         ELSE route
       IN  IF to = route
           THEN /\ user' = newSession
                /\ lastEvent' = [event |-> event, identity |-> newSession]
                /\ UNCHANGED <<loading, route, getSession>>
           ELSE Mount(to)
    /\ events' = Tail(events)
    /\ UNCHANGED <<session, storeVars, lastOp, dashVars, profVars, pagination>>

\* Index: if (!loading && !user) return <Navigate to="/auth" replace />
IndexRedirects ==
    /\ route = "/"
    /\ ~loading
    /\ user = NoUser
    /\ Mount("/auth")
    /\ UNCHANGED <<session, events, storeVars, lastOp, dashVars, profVars, pagination>>

\* AuthPage: if (!loading && user) return <Navigate to="/" replace />
AuthPageRedirects ==
    /\ route = "/auth"
    /\ ~loading
    /\ user # NoUser
    /\ Mount("/")
    /\ UNCHANGED <<session, events, storeVars, lastOp, dashVars, profVars, pagination>>

\* Profile: if (!loading && !user) return <Navigate to="/auth" replace />
ProfileRedirects ==
    /\ route = "/profile"
    /\ ~loading
    /\ user = NoUser
    /\ Mount("/auth")
    /\ UNCHANGED <<session, events, storeVars, lastOp, dashVars, profVars, pagination>>

\* Index: the header's <Link to="/profile">, shown with the dashboard
OpenProfile ==
    /\ route = "/"
    /\ ~loading
    /\ user # NoUser
    /\ Mount("/profile")
    /\ UNCHANGED <<session, events, storeVars, lastOp, dashVars, profVars, pagination>>

\* Profile: the profile query is enabled: !!user
profileEnabled == user # NoUser

\* Profile renders the page: not the spinner, not <Navigate to="/auth">
profileShown == route = "/profile" /\ ~loading /\ user # NoUser

\* Profile's useQuery(["profile", user?.id]) runs its queryFn under the
\* client's session
FetchProfile ==
    /\ route = "/profile"
    /\ profileEnabled
    /\ lastOp = NoOp
    /\ lastOp' = Op("getProfile", session, user, 0, TRUE,
                    profileQueryFn(session, user), 0)
    /\ UNCHANGED <<storeVars, authVars, dashVars, profVars, pagination>>

NextAuth ==
    \/ GetSessionRead
    \/ GetSessionThen
    \/ GetSessionRejects
    \/ SessionChange
    \/ AuthStateChange
    \/ IndexRedirects
    \/ AuthPageRedirects
    \/ ProfileRedirects
    \/ OpenProfile
    \/ FetchStart
    \/ FetchRespond
    \/ FetchProfile
    \/ Settle

SpecAuth == InitAuth /\ [][NextAuth]_vars

----------------------------------------------------------------------------
(* SpecPagination: PaginationControls for every page count and page, and    *)
(* the clicks on its links                                                  *)

PMaxPageCount == 14    \* the largest pageCount the component is given

\* Math.abs
Abs(a) == IF a < 0 THEN 0 - a ELSE a

\* for (let i = 1; i <= pageCount; i++): items.push(i) for the first, the
\* last and the pages next to the current one, else one "ellipsis" unless
\* the last item is one
RECURSIVE PaginationLoop(_, _, _, _)
PaginationLoop(items, i, p, n) ==
    IF i > n THEN items
    ELSE PaginationLoop(
             IF i = 1 \/ i = n \/ Abs(i - p) <= 1
             THEN Append(items, i)
             ELSE IF items = <<>> \/ items[Len(items)] # Ellipsis
                  THEN Append(items, Ellipsis)
                  ELSE items,
             i + 1, p, n)

\* items that get an "ellipsis" for every page left out
PaginationItemsRepeatingEllipsis(p, n) ==
    [i \in 1..n |-> IF i = 1 \/ i = n \/ Abs(i - p) <= 1 THEN i ELSE Ellipsis]

\* the items PaginationControls renders for page p of n
PaginationItems(p, n) == PaginationLoop(<<>>, 1, p, n)

\* handlePageChange(nextPage): if (nextPage < 1 || nextPage > pageCount ||
\* nextPage === page) return; onPageChange(nextPage)
handlePageChange(p, n, nextPage) ==
    IF nextPage < 1 \/ nextPage > n \/ nextPage = p
    THEN [called |-> FALSE, page |-> p]
    ELSE [called |-> TRUE, page |-> nextPage]

InitPagination ==
    /\ tasks = {}
    /\ profiles = {}
    /\ now = 0
    /\ nextId = 1
    /\ born = <<>>
    /\ writes = 0
    /\ lastOp = NoOp
    /\ session = NoUser
    /\ user = NoUser
    /\ loading = FALSE
    /\ route = "/"
    /\ getSession = GetSessionCalled
    /\ lastEvent = NoEvent
    /\ events = <<>>
    /\ pagination \in {[page |-> p, pageCount |-> n, items |-> PaginationItems(p, n),
                         called |-> FALSE] : p \in 1..PMaxPageCount,
                                             n \in 1..PMaxPageCount}
    /\ pagination.page <= pagination.pageCount
    /\ statusFilter = "all"
    /\ search = <<>>
    /\ page = 1
    /\ cache = {}
    /\ fetching = {}
    /\ fetches = 0
    /\ storage = {}
    /\ avatar = [t \in Tabs |-> AvatarIdle(NoUser)]

\* a click on PaginationPrevious (page - 1), on PaginationNext (page + 1) or
\* on the PaginationLink of an item; onPageChange sets the page the component
\* is rendered with next
ClickPagination ==
    \E nextPage \in {pagination.page - 1, pagination.page + 1}
                      \cup ({pagination.items[k] : k \in DOMAIN pagination.items}
                              \ {Ellipsis}) :
        LET r == handlePageChange(pagination.page, pagination.pageCount, nextPage)
        IN  /\ pagination' = [page |-> r.page, pageCount |-> pagination.pageCount,
                              items |-> PaginationItems(r.page, pagination.pageCount),
                              called |-> r.called]
            /\ UNCHANGED <<storeVars, lastOp, authVars, dashVars, profVars>>

NextPagination == ClickPagination

SpecPagination == InitPagination /\ [][NextPagination]_vars

----------------------------------------------------------------------------
(* SpecPaging: the dashboard of a signed-in user whose tasks fill more than *)
(* one page: the list query, PaginationControls' page changes, deletions    *)
(* and the refetch each of them triggers                                    *)

RMaxRows == 11    \* rows of the user in the table at the start

\* row i of the seeded table: all rows are u1's, created one after another
RRow(i) == [QRow(i, 2) EXCEPT !.user_id = "u1", !.created_at = i, !.updated_at = i]

InitPaging ==
    /\ \E n \in (pageSize + 1)..RMaxRows :
          /\ tasks = {RRow(i) : i \in 1..n}
          /\ nextId = n + 1
          /\ born = [i \in 1..n |-> [user_id |-> RRow(i).user_id,
                                      created_at |-> RRow(i).created_at]]
          /\ now = n
    /\ profiles = {}
    /\ writes = 0
    /\ lastOp = NoOp
    /\ session = "u1"
    /\ user = session
    /\ loading = FALSE
    /\ route = "/"
    /\ getSession = GetSessionCalled
    /\ lastEvent = NoEvent
    /\ events = <<>>
    /\ pagination = NoPagination
    /\ statusFilter = "all"
    /\ search = <<>>
    /\ page = 1
    /\ cache = {}
    /\ fetching = {}
    /\ fetches = 0
    /\ storage = {}
    /\ avatar = [t \in Tabs |-> AvatarIdle(NoUser)]

\* PaginationControls, rendered under the list when pageCount > 1: a click on
\* Previous, Next or a page link; onPageChange is setPage
SetPage ==
    \E nextPage \in {page - 1, page + 1}
                      \cup ({PaginationItems(page, pageCount)[k] :
                                k \in DOMAIN PaginationItems(page, pageCount)}
                              \ {Ellipsis}) :
        LET r == handlePageChange(page, pageCount, nextPage)
        IN  /\ renderedTasks # <<>>
            /\ pageCount > 1
            /\ lastOp = NoOp
            /\ r.called
            /\ page' = r.page
            /\ UNCHANGED <<storeVars, lastOp, authVars, statusFilter, search, cache,
                           fetching, fetches, profVars, pagination>>

\* deleteTask.onSuccess: queryClient.invalidateQueries({queryKey: ["tasks"]}),
\* which refetches the query Index observes, unless a fetch of it is in flight
DeleteSucceeded ==
    /\ lastOp.op = "deleteTask"
    /\ lastOp.ok
    /\ lastOp' = NoOp
    /\ fetching' = fetching \cup {[key |-> queryKey, as |-> session]}
    /\ UNCHANGED <<storeVars, authVars, statusFilter, search, page, cache, fetches,
                   profVars, pagination>>

NextPaging ==
    \/ FetchStart
    \/ FetchRespond
    \/ SetPage
    \/ ClickDelete
    \/ DeleteSucceeded
    \/ Settle

SpecPaging == InitPaging /\ [][NextPaging]_vars

----------------------------------------------------------------------------
(* Properties of the avatar upload (SpecAvatar)                             *)

\* C17: a file that is not an image, or is larger than 5 MiB, is rejected
\* before any upload call: no upload is in flight for such a file and no such
\* file is stored.
C17_InvalidFileNeverUploaded ==
    /\ \A t \in Tabs :
          avatar[t].pc # "idle" =>
              avatar[t].file.type = "image/png" /\ avatar[t].file.size <= 5
    /\ \A o \in storage : o.file.type = "image/png" /\ o.file.size <= 5

\* C18: storage keys never collide: two uploads in flight at once, the same
\* clock tick and extension included, have different keys, and every stored
\* object sits under a key that begins with its uploader's id.
C18_KeysNeverCollide ==
    /\ \A t1 \in Tabs : \A t2 \in Tabs \ {t1} :
          avatar[t1].pc # "idle" /\ avatar[t2].pc # "idle" =>
              avatar[t1].filePath # avatar[t2].filePath
    /\ \A o \in storage : o.key[1] = o.by

\* C19: the upload and the profile update are separate steps: the step in
\* which the upload is answered, with success or with an error, and the step
\* in which the following upsert fails, leave the stored profile rows as they
\* were.
C19_FailedUploadLeavesProfile ==
    [][\A t \in Tabs :
          \/ avatar[t].pc = "uploading" /\ avatar'[t].pc # "uploading"
          \/ avatar[t].pc = "upserting" /\ avatar'[t].pc = "idle" /\ ~lastOp'.ok
          => profiles' = profiles]_vars

\* an upload succeeded and the upsert after it failed; the user's row, saved
\* earlier, is still there
C19_Witness ==
    \E t \in Tabs :
        /\ avatar[t].pc = "idle"
        /\ avatar[t].isUploadingAvatar
        /\ lastOp.op = "upsertProfile"
        /\ ~lastOp.ok
        /\ \E o \in storage : o.by = avatar[t].user
        /\ \E r \in profiles : r.user_id = avatar[t].user /\ r.avatar_url = <<"x">>

\* C28: every upload attempt ends with the uploading flag cleared, whether
\* the upload fails, the upsert after it succeeds or the upsert after it
\* fails: once the handler is over isUploadingAvatar is false.
C28_UploadingFlagCleared ==
    \A t \in Tabs : avatar[t].pc = "idle" => ~avatar[t].isUploadingAvatar

----------------------------------------------------------------------------
(* Properties of the auth state (SpecAuth)                                  *)

\* C20: after a sign-out event the hook's user is null until a later event,
\* and after a sign-in or session-refresh event it is that event's identity,
\* whenever the answer of the initial getSession() arrives: the user the hook
\* holds is the identity of the last event its callback was given.
C20_StateFollowsLastEvent ==
    lastEvent.event # "none" => user = lastEvent.identity

\* C21: loading is true at application start, becomes false once getSession()
\* settles, and never returns to true afterwards.
C21_LoadingNeverReturns ==
    [][~loading => ~loading']_vars

\* C22: while loading is true no component redirects: the route stays as it
\* is until the session check has completed.
C22_NoRedirectWhileLoading ==
    [][loading => route' = route]_vars

\* C23: one subscription and one auth state serve the application for its
\* lifetime: a change of route makes no new subscription and getSession()
\* call, and the page that mounts reads the loading flag the page before it
\* read.
C23_OneSharedSubscription ==
    [][route' # route => loading' = loading /\ getSession' = getSession]_vars

\* C24: while the hook is resolved and signed out (loading false, user null)
\* the dashboard and the profile page show nothing but the redirect and no
\* task or profile query is issued; once a sign-out has reached the callback
\* neither protected page is shown.
C24_ProtectedRoutes ==
    [][/\ (~loading /\ user = NoUser /\ route \in {"/", "/profile"}) =>
            /\ ~dashboardShown /\ ~profileShown
            /\ fetching' \subseteq fetching
            /\ lastOp'.op = "getProfile" => lastOp' = lastOp
       /\ (events # <<>> /\ events' = Tail(events)
             /\ Head(events).event = "SIGNED_OUT") =>
            ~dashboardShown' /\ ~profileShown']_vars

\* a protected page is mounted with the hook resolved and signed out, after
\* queries have been issued for a user
C24_Witness ==
    /\ route \in {"/", "/profile"}
    /\ ~loading
    /\ user = NoUser
    /\ fetches > 0

\* C30: the callback navigates to "/" on every SIGNED_IN and TOKEN_REFRESHED
\* event and to "/auth" on every SIGNED_OUT event, whatever the route and
\* whether or not loading is still true; any other event leaves the route.
C30_EventsNavigate ==
    [][(events # <<>> /\ events' = Tail(events)) =>
          route' = IF Head(events).event = "SIGNED_OUT" THEN "/auth"
                   ELSE IF Head(events).event \in {"SIGNED_IN", "TOKEN_REFRESHED"}
                        THEN "/"
                   ELSE route]_vars

\* the callback took a TOKEN_REFRESHED event while getSession() was pending
C30_Witness ==
    /\ lastEvent.event = "TOKEN_REFRESHED"
    /\ route = "/"
    /\ loading

----------------------------------------------------------------------------
(* Properties of PaginationControls (SpecPagination)                        *)

\* C29: for every pageCount >= 1 and page in 1..pageCount the items' page
\* numbers are 1, pageCount and the pages within one of the current page, in
\* increasing order, with one ellipsis between two listed numbers that differ
\* by more than 1 and none otherwise; onPageChange is called only with a
\* target in 1..pageCount other than the current page.
C29_PaginationItems ==
    /\ [](LET items == pagination.items
              p     == pagination.page
              n     == pagination.pageCount
          IN  /\ {items[k] : k \in DOMAIN items} \ {Ellipsis}
                   = {i \in 1..n : i = 1 \/ i = n \/ (i - p <= 1 /\ p - i <= 1)}
              /\ items[1] = 1 /\ items[Len(items)] = n
              /\ \A k \in 1..(Len(items) - 1) :
                    IF items[k] = Ellipsis
                    THEN /\ k > 1
                         /\ items[k + 1] # Ellipsis
                         /\ items[k + 1] > items[k - 1] + 1
                    ELSE items[k + 1] \in {Ellipsis, items[k] + 1})
    /\ [][pagination'.called =>
             /\ pagination'.page \in 1..pagination.pageCount
             /\ pagination'.page # pagination.page]_vars

\* page 4 of 7 or more after a click: 1, ellipsis, 3, 4, 5, ellipsis, last
C29_Witness ==
    /\ pagination.called
    /\ pagination.page = 4
    /\ pagination.pageCount >= 7
    /\ Len(pagination.items) = 7
    /\ pagination.items[2] = Ellipsis
    /\ pagination.items[6] = Ellipsis

----------------------------------------------------------------------------
(* Properties of the page number (SpecPaging)                               *)

\* C27: after any sequence of deletions, page changes and refetches the page
\* the dashboard is on lies in 1..pageCount, once the list of that page has
\* been loaded; deleting the last task of the last page does not leave the
\* view beyond pageCount.
C27_PageWithinPageCount ==
    (dashboardShown /\ tasksData.hasData) => (1 <= page /\ page <= pageCount)

----------------------------------------------------------------------------
(* SpecCreate: createTask.mutate() for every title the form state may hold, *)
(* under a signed-in user's session                                         *)

CTitles == {<<>>, <<" ">>, <<"a">>, <<" ", "a">>}

InitCreate ==
    /\ tasks = {}
    /\ profiles = {}
    /\ now = 0
    /\ nextId = 1
    /\ born = <<>>
    /\ writes = 0
    /\ lastOp = NoOp
    /\ session \in Users
    /\ user = session
    /\ loading = FALSE
    /\ route = "/"
    /\ getSession = GetSessionCalled
    /\ lastEvent = NoEvent
    /\ events = <<>>
    /\ pagination = NoPagination
    /\ statusFilter = "all"
    /\ search = <<>>
    /\ page = 1
    /\ cache = {}
    /\ fetching = {}
    /\ fetches = 0
    /\ storage = {}
    /\ avatar = [t \in Tabs |-> AvatarIdle(NoUser)]

\* createTask.mutate(): the mutationFn runs with the form's title,
\* description and status
MutateCreateTask ==
    \E t \in CTitles, d \in FormDescriptions, s \in TaskStatus :
        /\ lastOp = NoOp
        /\ createTaskFn(session, user, t, d, s)
        /\ UNCHANGED <<profiles, now, authVars, dashVars, profVars, pagination>>

NextCreate ==
    \/ MutateCreateTask
    \/ Settle

SpecCreate == InitCreate /\ [][NextCreate]_vars

----------------------------------------------------------------------------
(* Properties of the store under the data-access calls (Spec) *)

\* C1: a SELECT on tasks or profiles issued under identity A succeeds and
\* returns only rows whose user_id is A; other users' rows are left out.
C1_SelectOnlyOwnRows ==
    /\ lastOp.op = "listTasks" =>
          /\ lastOp.ok
          /\ \A i \in DOMAIN lastOp.data :
                \E r \in tasks : r.id = lastOp.data[i].id /\ r.user_id = lastOp.caller
    /\ lastOp.op = "getProfile" =>
          /\ lastOp.ok
          /\ \A i \in DOMAIN lastOp.data : lastOp.data[i].user_id = lastOp.caller

\* a list that returned rows while another user's task was in the table
C1_Witness ==
    /\ lastOp.op = "listTasks"
    /\ lastOp.data # <<>>
    /\ \E r \in tasks : r.user_id # lastOp.caller

\* C3 (as claimed): an update or delete of a task that belongs to another
\* identity takes the error path.
C3_ForeignWriteFails ==
    ( /\ lastOp.op \in {"updateTask", "deleteTask"}
      /\ \E r \in tasks : r.id = lastOp.id /\ r.user_id # lastOp.caller )
    => ~lastOp.ok

\* C4: an INSERT into tasks or profiles is accepted iff the row's user_id is
\* the requesting identity; a rejected INSERT reports an error and leaves
\* both tables as they were.
C4_InsertIffOwner ==
    [][ ( /\ lastOp = NoOp
          /\ \/ lastOp'.op = "createTask"
             \/ lastOp'.op = "upsertProfile" /\ lastOp'.uid # NoUser )
        => LET own == lastOp'.caller # NoUser /\ lastOp'.uid = lastOp'.caller
           IN  /\ lastOp'.ok <=> own
               /\ ~own => tasks' = tasks /\ profiles' = profiles
               /\ (own /\ lastOp'.op = "createTask") =>
                      \E r \in tasks' \ tasks : r.user_id = lastOp'.caller
               /\ (own /\ lastOp'.op = "upsertProfile") =>
                      \E r \in profiles' : r.user_id = lastOp'.caller
      ]_vars

\* an insert for one user under another user's session was rejected
C4_Witness ==
    /\ lastOp.op = "createTask"
    /\ lastOp.caller \in Users
    /\ lastOp.uid \in Users \ {lastOp.caller}
    /\ ~lastOp.ok

\* C5: every task row keeps the id, user_id and created_at it was inserted
\* with, and no two rows share an id.
C5_OwnerAndCreationFixed ==
    /\ \A r \in tasks :
          /\ r.id \in DOMAIN born
          /\ r.user_id = born[r.id].user_id
          /\ r.created_at = born[r.id].created_at
    /\ \A r, q \in tasks : r.id = q.id => r = q

\* a task updated after the clock moved on
C5_Witness ==
    /\ lastOp.op = "updateTask"
    /\ lastOp.n = 1
    /\ \E r \in tasks : r.id = lastOp.id /\ r.created_at < now

\* C6: every UPDATE that reaches a tasks or profiles row leaves the row with
\* updated_at = now() and with the created_at it had.
C6_UpdatedAtRefreshed ==
    [][ /\ \A r \in tasks, q \in tasks' :
              ( /\ q.id = r.id
                /\ \/ q # r
                   \/ lastOp = NoOp /\ lastOp'.op = "updateTask"
                        /\ lastOp'.n = 1 /\ lastOp'.id = r.id )
              => q.updated_at = now' /\ q.created_at = r.created_at
        /\ \A r \in profiles, q \in profiles' :
              ( /\ q.user_id = r.user_id
                /\ \/ q # r
                   \/ lastOp = NoOp /\ lastOp'.op = "upsertProfile"
                        /\ lastOp'.n = 1 /\ lastOp'.uid = r.user_id )
              => q.updated_at = now' /\ q.created_at = r.created_at
      ]_vars

\* a profile upserted a second time after the clock moved on
C6_Witness ==
    /\ lastOp.op = "upsertProfile"
    /\ lastOp.n = 1
    /\ \E r \in profiles :
          r.user_id = lastOp.uid /\ r.created_at < now /\ r.updated_at = now

\* C15: after any sequence of upsertProfile calls the profiles table holds at
\* most one row per user_id, and after a successful upsert for a user exactly
\* one, whose name and avatar_url are those of that (the last applied) upsert.
C15_OneProfilePerUser ==
    /\ \A u \in Users : Cardinality({r \in profiles : r.user_id = u}) <= 1
    /\ (lastOp.op = "upsertProfile" /\ lastOp.ok /\ lastOp.uid # NoUser) =>
          /\ Cardinality({r \in profiles : r.user_id = lastOp.uid}) = 1
          /\ \A r \in profiles : r.user_id = lastOp.uid =>
                /\ r.name = lastOp.data[1].name
                /\ r.avatar_url = lastOp.data[1].avatar_url

\* a user's second upsert, at a later time, has replaced the first one's name
C15_Witness ==
    /\ lastOp.op = "upsertProfile"
    /\ lastOp.ok
    /\ \E r \in profiles :
          /\ r.user_id = lastOp.uid
          /\ r.updated_at > r.created_at
          /\ r.name = Null
          /\ writes = 2

\* C16 (as claimed): upsertProfile invoked while user is null fails with an
\* error reported to the caller; it does not complete as a success.
C16_NoSessionUpsertFails ==
    (lastOp.op = "upsertProfile" /\ lastOp.uid = NoUser) => ~lastOp.ok

\* C26 (as claimed): no call swallows its failure: a create, update, delete
\* or profile upsert that wrote nothing ends in an error for its caller,
\* never in a success or a silent no-op.
C26_NoSilentFailure ==
    (lastOp.op \in {"createTask", "updateTask", "deleteTask", "upsertProfile"}
       /\ lastOp.n = 0) => ~lastOp.ok

----------------------------------------------------------------------------
(* Properties of the task query (SpecQuery) *)

\* the rows of the session's user that pass the status filter
C7_Matching ==
    {r \in tasks : r.user_id = session /\ (statusFilter = "all" \/ r.status = statusFilter)}

\* C7 (as claimed): with an empty search, for every status filter and every
\* page p >= 1 the query succeeds, count is the number of the caller's rows
\* matching the filter, and the rows returned are those at positions
\* (p-1)*10 .. p*10-1 of the matching rows in created_at descending order;
\* with filter "completed" no returned row is pending.
C7_PageOfMatchingRows ==
    (lastOp.op = "listTasks" /\ search = <<>>) =>
        LET from  == (page - 1) * pageSize
            total == Cardinality(C7_Matching)
            d     == lastOp.data
        IN  /\ lastOp.ok
            /\ lastOp.n = total
            /\ Len(d) = Max(0, Min(pageSize, total - from))
            /\ \A i \in DOMAIN d : \E r \in C7_Matching : SelectColumns(r) = d[i]
            /\ \A i, j \in DOMAIN d :
                  i < j => d[i].id # d[j].id /\ d[i].created_at >= d[j].created_at
            /\ \A i \in DOMAIN d :
                  /\ Cardinality({r \in C7_Matching : r.created_at > d[i].created_at})
                        < from + i
                  /\ Cardinality({r \in C7_Matching : r.created_at >= d[i].created_at})
                        >= from + i
            /\ statusFilter = "completed" => \A i \in DOMAIN d : d[i].status # "pending"

\* text contains s, compared case-insensitively
C8_Contains(text, s) ==
    \E i \in 0..(Len(text) - Len(s)) :
        ToLower(SubSeq(text, i + 1, i + Len(s))) = ToLower(s)

\* the rows of the session's user whose title or description contains search
C8_Expected ==
    {r \in tasks :
        /\ r.user_id = session
        /\ \/ C8_Contains(r.title, search)
           \/ r.description # Null /\ C8_Contains(r.description, search)}

\* C8 (as claimed): for every non-empty search string the list (status filter
\* "all", first page) holds exactly the caller's tasks whose title or
\* description contains the string, compared case-insensitively.
C8_SearchIsSubstringMatch ==
    (lastOp.op = "listTasks" /\ search # <<>> /\ statusFilter = "all" /\ page = 1) =>
        /\ lastOp.ok
        /\ lastOp.n = Cardinality(C8_Expected)
        /\ \A i \in DOMAIN lastOp.data : \E r \in C8_Expected : r.id = lastOp.data[i].id

\* C10 (as claimed): a request for a page beyond the last page, page >
\* max(1, ceil(total / 10)), returns an empty sequence of rows and no error.
C10_PageBeyondLastIsEmpty ==
    LET total == Cardinality(C7_Matching)
        last  == Max(1, (total + pageSize - 1) \div pageSize)
    IN  (lastOp.op = "listTasks" /\ search = <<>> /\ page > last) =>
            lastOp.ok /\ lastOp.data = <<>>

----------------------------------------------------------------------------
(* Properties of the dashboard (SpecDash) *)

\* C2 (as claimed): at every moment every task the dashboard renders for the
\* signed-in user is a task that user owns, also after a sign-out followed by
\* a sign-in as another user in the same tab.
C2_RenderedTasksAreOwn ==
    \A i \in DOMAIN renderedTasks : born[renderedTasks[i].id].user_id = user

\* C9 (as claimed): pageCount is max(1, ceil(totalCount / 10)), at least 1,
\* and with zero matching tasks, and while the query is loading or has
\* failed, the list is empty, total is 0 and pageCount is 1.
C9_EmptyWhileLoadingOrFailed ==
    /\ pageCount >= 1
    /\ pageCount * pageSize >= totalCount
    /\ pageCount > 1 => (pageCount - 1) * pageSize < totalCount
    /\ (isLoading \/ tasksError \/ (tasksData.hasData /\ tasksData.count = 0)) =>
          filteredTasks = <<>> /\ totalCount = 0 /\ pageCount = 1

\* C9 (amended): pageCount is max(1, ceil(totalCount / 10)), at least 1, and
\* when the query of the current key holds no data (first load, or failed
\* without an earlier success) or its data counts zero matching tasks, the
\* list is empty, total is 0 and pageCount is 1.
C9_PageCountAtLeastOne ==
    /\ pageCount >= 1
    /\ pageCount * pageSize >= totalCount
    /\ pageCount > 1 => (pageCount - 1) * pageSize < totalCount
    /\ (~tasksData.hasData \/ tasksData.count = 0) =>
          filteredTasks = <<>> /\ totalCount = 0 /\ pageCount = 1

\* the dashboard shows a user whose fetched list counts zero tasks
C9_Witness ==
    /\ dashboardShown
    /\ tasksData.hasData
    /\ tasksData.count = 0
    /\ pageCount = 1

\* C25: a stale list query cannot overwrite a newer one's result: whatever
\* the order in which the responses arrive, the rows and the total shown are
\* those of a query made with the parameters now set, here the status filter:
\* under a filter every row shown has that status and the total counts no
\* fewer rows than are shown.
C25_ShownRowsAreOfCurrentParameters ==
    /\ \A i \in DOMAIN renderedTasks :
          statusFilter # "all" => renderedTasks[i].status = statusFilter
    /\ renderedTasks # <<>> => Len(renderedTasks) <= totalCount

\* rows are shown under the "pending" filter while the cache also holds the
\* answer to the query made before the filter was set, with a completed row
C25_Witness ==
    /\ statusFilter = "pending"
    /\ renderedTasks # <<>>
    /\ \E e \in cache :
          /\ e.key # queryKey
          /\ e.hasData
          /\ \E i \in DOMAIN e.data : e.data[i].status = "completed"

----------------------------------------------------------------------------
(* Properties of createTask (SpecCreate) *)

----------------------------------------------------------------------------
(* Properties of the list's buttons (SpecList) *)

\* C12: a status toggle (updateTask with only id and status) leaves the
\* task's title, description, user_id and created_at as they were and leaves
\* every other row of the table unchanged; no row appears or disappears.
C12_ToggleChangesOnlyStatus ==
    [][(lastOp = NoOp /\ lastOp'.op = "updateTask") =>
          /\ {r.id : r \in tasks'} = {r.id : r \in tasks}
          /\ \A r \in tasks : \E q \in tasks' :
                /\ q.id = r.id
                /\ q.title = r.title
                /\ q.description = r.description
                /\ q.user_id = r.user_id
                /\ q.created_at = r.created_at
                /\ r.id # lastOp'.id => q = r]_vars

\* a toggle has changed the status of a task that has a description, in a
\* table that holds other rows
C12_Witness ==
    /\ lastOp.op = "updateTask"
    /\ lastOp.n = 1
    /\ \E r \in tasks : r.id = lastOp.id /\ r.description # Null /\ r.updated_at = now
    /\ \E r \in tasks : r.id # lastOp.id

\* C13 (as claimed): for every interleaving of toggles and refetches, a
\* toggle of task t sets t's stored status to the opposite of the status t
\* has in the store when the toggle is requested.
C13_ToggleFlipsStoredStatus ==
    [][(lastOp = NoOp /\ lastOp'.op = "updateTask") =>
          \A r \in tasks : r.id = lastOp'.id =>
              \E q \in tasks' : q.id = r.id /\ q.status # r.status]_vars

\* C14 (as claimed): deleteTask removes the row when it exists and is owned
\* by the caller; deleteTask and updateTask on a row that is absent report an
\* error to the caller, so a second delete of a deleted task does not succeed.
C14_AbsentRowReportsNotFound ==
    [][(lastOp = NoOp /\ lastOp'.op \in {"deleteTask", "updateTask"}) =>
          LET present == \E r \in tasks : r.id = lastOp'.id
              owned   == \E r \in tasks : r.id = lastOp'.id /\ r.user_id = lastOp'.caller
          IN  /\ (lastOp'.op = "deleteTask" /\ owned) =>
                    lastOp'.ok /\ ~\E r \in tasks' : r.id = lastOp'.id
              /\ ~present => ~lastOp'.ok]_vars

====
